---- MODULE Spec2Model ----
(***************************************************************************)
(* Registration and attendance provisioning of the QR check-in             *)
(* application: the events table, the per-event attendance tables, the     *)
(* register-event POST handler, createEvent, updateEvent, deleteEvent,     *)
(* isUserRegistered and the registration QR image GET handler, as a state  *)
(* machine over the storage engine.  A register or deleteEvent request     *)
(* takes one step for each storage call that writes or that decides what   *)
(* it writes next, so that two requests interleave at their storage calls. *)
(***************************************************************************)
EXTENDS Integers, Sequences, FiniteSets, TLC

(* ------------------------------ bounds -------------------------------- *)

\* events ever created (ids are generated, never reused)
MaxEvents == 2
\* register, deleteEvent and updateEvent calls ever started; the reads
\* (isUserRegistered, the QR image lookup) are not counted
MaxOps == 2
\* requests in flight at the same time
Slots == {1, 2}
\* code units of the longest name the codec is given
MaxLen == 2
\* characters of the longest title a table name is computed for
MaxTitleLen == 2
\* the calls started and the requests in flight of the runs with three
\* requests at a time
MaxRaceOps == 3
RaceSlots == {1, 2, 3}

\* inputs of the requests
Emails == {"", "ada@x.com", "bob@x.com"}
Titles == {<<"F", "!">>, <<"g">>}

(* --------------------------- table names ------------------------------- *)

\* String.prototype.toLowerCase on the characters of the titles
toLowerCase(c) == CASE c = "F" -> "f" [] c = "G" -> "g" [] c = "K" -> "k" [] OTHER -> c

\* the character class [a-z0-9] on the characters of the titles
IsLowerAlnum(c) == c \in {"a", "c", "f", "g", "i", "k", "l", "o", "0", "1"}

\* title.toLowerCase().replace(/[^a-z0-9]/g, '_')
sanitizedTitle(title) ==
    [i \in 1..Len(title) |->
        IF IsLowerAlnum(toLowerCase(title[i])) THEN toLowerCase(title[i]) ELSE "_"]

\* `event_${sanitizedTitle}_${eventId}`
tableName(title, eventId) == <<"event_", sanitizedTitle(title), "_", eventId>>

\* the name the insert trigger on events builds: as above, with the literal
\* 'event' standing in for an empty sanitized title
triggerTableName(title, eventId) ==
    <<"event_",
      IF Len(sanitizedTitle(title)) = 0 THEN <<"e", "v", "e", "n", "t">>
                                        ELSE sanitizedTitle(title),
      "_", eventId>>

(* ------------------------------ state ---------------------------------- *)

VARIABLES
    triggerInstalled,  \* deployment: is create_event_attendance_table_trigger on events
    events,            \* the events table: id :> [title]
    eventSeq,          \* ids handed out by events.id DEFAULT gen_random_uuid()
    tables,            \* attendance tables: name :> [schema, rows]
    regSeq,            \* ids handed out by the attendance tables' id DEFAULT
    mailbox,           \* mails accepted by the transport
    proc,              \* the requests in flight, one per slot
    out,               \* the last read and its answer
    opsStarted         \* register, deleteEvent and updateEvent calls started so
                       \* far; the clock new Date() and NOW() read

vars == <<triggerInstalled, events, eventSeq, tables, regSeq, mailbox, proc,
          out, opsStarted>>

\* error codes of the storage engine
UndefinedTable == "42P01"
UniqueViolation == "23505"
ForeignKeyViolation == "23503"
DuplicateObject == "42710"
UndefinedColumn == "PGRST204"
NoRows == "PGRST116"
SyntaxError == "42601"

NoResp == [status |-> 0, success |-> FALSE, error |-> "", warning |-> "",
           message |-> "", registrationId |-> 0, qrCodeUrl |-> <<>>, png |-> <<>>]

\* a slot: the request it serves (seq numbers the requests in the order they
\* started), the locals of the handler, and, once the request is done, its
\* response; err is the error of the storage call that ended it
Idle == [op |-> "idle", pc |-> "idle", seq |-> 0, eventId |-> 0, name |-> "",
         email |-> "", title |-> <<>>, token |-> <<>>, regId |-> 0,
         err |-> "", resp |-> NoResp]

Init ==
    /\ triggerInstalled \in BOOLEAN
    /\ events = <<>>
    /\ eventSeq = 0
    /\ tables = <<>>
    /\ regSeq = 0
    /\ mailbox = {}
    /\ proc = [s \in Slots |-> Idle]
    /\ out = [op |-> "none", eventId |-> 0, email |-> "", regId |-> 0, err |-> "",
              resp |-> NoResp]
    /\ opsStarted = 0

(* --------------------------- storage engine ---------------------------- *)

\* supabase.from(name).select(...): the error of a query on attendance table n
SelectError(n) == IF n \in DOMAIN tables THEN "" ELSE UndefinedTable

\* create_event_attendance_table(table_name, event_id_param): CREATE TABLE IF
\* NOT EXISTS is a no-op on an existing table, and ALTER TABLE ... ADD
\* CONSTRAINT fk_<table>_event_id then finds the constraint already there
RpcError(n) == IF n \in DOMAIN tables THEN DuplicateObject ELSE ""

\* the constraint name is built as fk_%I_event_id: where format() quotes the
\* table name the ALTER TABLE statement is no statement and the call fails
\* with nothing created; whether it quotes depends on the characters of the
\* generated id, which the ids of the model do not have
RpcOutcomes(n) == {RpcError(n), SyntaxError}

\* the table create_event_attendance_table(text, uuid) creates
RegistrationTable == [schema |-> "registration", rows |-> {}]

\* the table the insert trigger on events creates: no qrdata, registered_at
\* or checked_in column and no UNIQUE on email
TriggerTable == [schema |-> "trigger", rows |-> {}]

\* the same insert into a table whose email column is not UNIQUE
InsertErrorNoUnique(n, eventId, email) ==
    IF n \notin DOMAIN tables THEN UndefinedTable
    ELSE IF tables[n].schema = "trigger" THEN UndefinedColumn
    ELSE IF eventId \notin DOMAIN events THEN ForeignKeyViolation
    ELSE ""

\* insert of {event_id, name, email, qrdata} into attendance table n
InsertError(n, eventId, email) ==
    IF n \notin DOMAIN tables THEN UndefinedTable
    ELSE IF tables[n].schema = "trigger" THEN UndefinedColumn
    ELSE IF \E r \in tables[n].rows : r.email = email THEN UniqueViolation
    ELSE IF eventId \notin DOMAIN events THEN ForeignKeyViolation
    ELSE ""

\* the row the insert stores, the defaults of the columns filled in
NewRow(id, eventId, name, email, qrdata) ==
    [id |-> id, event_id |-> eventId, name |-> name, email |-> email,
     qrdata |-> qrdata, registered_at |-> opsStarted, checked_in |-> FALSE,
     check_in_time |-> 0]

\* attendance tables holding a row that references event e
Referencing(e) == {n \in DOMAIN tables : \E r \in tables[n].rows : r.event_id = e}

\* tables with the rows of table n replaced by rows
WithRows(n, rows) == [tables EXCEPT ![n].rows = rows]

\* ON DELETE CASCADE of fk_<table>_event_id: every row referencing e goes
Cascaded(e) ==
    [n \in DOMAIN tables |->
        [tables[n] EXCEPT !.rows = {r \in tables[n].rows : r.event_id # e}]]

\* the events table without event e
WithoutEvent(e) == [k \in DOMAIN events \ {e} |-> events[k]]

(* ------------------------------ QR codec ------------------------------- *)

\* the token of a registration, kept as the fields it serializes in their
\* order; encodedMetadata below computes its characters
EncodeMetadata(name, email, event, eventId, timestamp) ==
    <<name, email, event, eventId, timestamp>>

\* process.env.NEXT_PUBLIC_APP_URL
AppUrl == <<"https://host", "/">>

\* getProductionQRCodeUrl(registrationId)
getProductionQRCodeUrl(registrationId) ==
    LET normalizedBaseUrl ==
            IF Len(AppUrl) > 0 /\ AppUrl[Len(AppUrl)] = "/"
            THEN SubSeq(AppUrl, 1, Len(AppUrl) - 1) ELSE AppUrl
    IN normalizedBaseUrl \o <<"/api/qrcode/registration/", registrationId>>

(* ------------------- POST /api/register-event -------------------------- *)
(* A step of a request is one storage call together with the local work    *)
(* that follows it up to the next storage call: local work reads and       *)
(* writes nothing another request sees.                                     *)

\* NextResponse.json({ error }, { status })
ErrorResponse(status, error) == [NoResp EXCEPT !.status = status, !.error = error]

\* the messages registerForEvent reports
AlreadyRegistered == "You are already registered for this event."
ProvisioningFailed ==
    "Could not create attendance tracking table. Please contact an administrator."

\* the request req ends with response r after a storage call that ended
\* with err: the slot keeps what the caller sent and what it got
Done(req, err, r) ==
    [Idle EXCEPT !.op = req.op, !.pc = "done", !.seq = req.seq,
                 !.eventId = req.eventId, !.name = req.name, !.email = req.email,
                 !.title = req.title, !.regId = req.regId, !.err = err,
                 !.resp = r]

\* the request req goes on at pc
Step(req, pc) == [req EXCEPT !.pc = pc]

\* the calls a run may start
OpsBound == IF DOMAIN proc = Slots THEN MaxOps ELSE MaxRaceOps

\* a new request is served by the first slot that serves none
Free(s) ==
    /\ proc[s].pc \in {"idle", "done"}
    /\ \A t \in DOMAIN proc : t < s => proc[t].pc \notin {"idle", "done"}

\* the bodies a client posts: the well-formed ones, and one for each
\* required field missing
RegisterBodies ==
    {[eventId |-> e, name |-> "Ada", email |-> m] :
        e \in 1..MaxEvents, m \in Emails \ {""}}
    \cup {[eventId |-> 0, name |-> "Ada", email |-> "ada@x.com"],
          [eventId |-> 1, name |-> "", email |-> "ada@x.com"],
          [eventId |-> 1, name |-> "Ada", email |-> ""]}

\* the body is parsed and validated, getEventById reads the event
\* (.single() is an error when no row matches), and generateEventQRCode
\* stamps the metadata with the time of the call and encodes it; rendering
\* the data URL may throw
StartRegister(s, body) ==
    /\ Free(s)
    /\ opsStarted < OpsBound
    /\ opsStarted' = opsStarted + 1
    /\ LET req == [Idle EXCEPT !.op = "register", !.seq = opsStarted + 1,
                               !.eventId = body.eventId,
                               !.name = body.name, !.email = body.email]
       IN IF body.eventId = 0 \/ body.name = "" \/ body.email = ""
          THEN proc' = [proc EXCEPT ![s] =
                   Done(req, "", ErrorResponse(400, "Missing required fields"))]
          ELSE LET eventError == IF body.eventId \in DOMAIN events
                                 THEN "" ELSE NoRows
               IN IF eventError # ""
                  THEN proc' = [proc EXCEPT ![s] =
                           Done(req, eventError,
                                ErrorResponse(500, "Failed to retrieve event details"))]
                  ELSE LET event == [req EXCEPT !.title = events[body.eventId].title]
                       IN \E success \in BOOLEAN :
                             IF ~success
                             THEN proc' = [proc EXCEPT ![s] =
                                      Done(event, "",
                                           ErrorResponse(500, "Failed to generate QR code"))]
                             ELSE proc' = [proc EXCEPT ![s] =
                                      [event EXCEPT
                                          !.pc = "tableCheck",
                                          !.token = EncodeMetadata(body.name, body.email,
                                                        event.title, body.eventId,
                                                        opsStarted)]]
    /\ UNCHANGED <<triggerInstalled, events, eventSeq, tables, regSeq, mailbox, out>>

\* registerForEvent without the probe, the creation left to CREATE TABLE IF
\* NOT EXISTS
TableCheckSkipped(s) ==
    /\ proc[s].op = "register" /\ proc[s].pc = "tableCheck"
    /\ proc' = [proc EXCEPT ![s] = Step(proc[s], "createTable")]
    /\ UNCHANGED <<triggerInstalled, events, eventSeq, tables, regSeq, mailbox, opsStarted, out>>

\* registerForEvent: the table is probed with select('id').limit(1); only
\* error 42P01 leads to the creation step, any other error is logged
TableCheck(s) ==
    /\ proc[s].op = "register" /\ proc[s].pc = "tableCheck"
    /\ LET tableCheckError ==
               SelectError(tableName(proc[s].title, proc[s].eventId))
       IN proc' = [proc EXCEPT ![s] =
              Step(proc[s],
                   IF tableCheckError = UndefinedTable THEN "createTable" ELSE "insert")]
    /\ UNCHANGED <<triggerInstalled, events, eventSeq, tables, regSeq, mailbox, opsStarted, out>>

\* registerForEvent going on to the insert whatever the creation returned
CreateTableErrorIgnored(s) ==
    /\ proc[s].op = "register" /\ proc[s].pc = "createTable"
    /\ LET n == tableName(proc[s].title, proc[s].eventId)
       IN \E createTableError \in RpcOutcomes(n) :
             /\ proc' = [proc EXCEPT ![s] = Step(proc[s], "insert")]
             /\ tables' = IF createTableError # "" THEN tables
                          ELSE tables @@ (n :> RegistrationTable)
    /\ UNCHANGED <<triggerInstalled, events, eventSeq, regSeq, mailbox, opsStarted, out>>

\* registerForEvent: supabase.rpc('create_event_attendance_table', ...); its
\* failure ends the registration, and the route reports it with status 400
CreateTable(s) ==
    /\ proc[s].op = "register" /\ proc[s].pc = "createTable"
    /\ LET n == tableName(proc[s].title, proc[s].eventId)
       IN \E createTableError \in RpcOutcomes(n) :
             IF createTableError # ""
             THEN /\ proc' = [proc EXCEPT ![s] =
                        Done(proc[s], createTableError,
                             ErrorResponse(400, ProvisioningFailed))]
                  /\ tables' = tables
             ELSE /\ proc' = [proc EXCEPT ![s] = Step(proc[s], "insert")]
                  /\ tables' = tables @@ (n :> RegistrationTable)
    /\ UNCHANGED <<triggerInstalled, events, eventSeq, regSeq, mailbox, opsStarted, out>>

\* the insert as an upsert on the email: a duplicate registration is
\* reported as before, the row there takes the name and the token of the call
InsertReplacing(s) ==
    /\ proc[s].op = "register" /\ proc[s].pc = "insert"
    /\ LET n == tableName(proc[s].title, proc[s].eventId)
           error == InsertError(n, proc[s].eventId, proc[s].email)
       IN    IF error # ""
             THEN /\ proc' = [proc EXCEPT ![s] =
                        Done(proc[s], error,
                             ErrorResponse(400,
                                 IF error = UniqueViolation THEN AlreadyRegistered
                                 ELSE error))]
                  /\ regSeq' = regSeq
                  /\ tables' = IF error # UniqueViolation THEN tables
                               ELSE WithRows(n,
                                   {IF r.email = proc[s].email
                                    THEN [r EXCEPT !.name = proc[s].name,
                                                   !.qrdata = proc[s].token]
                                    ELSE r : r \in tables[n].rows})
             ELSE /\ proc' = [proc EXCEPT ![s] = Step(proc[s], "selectId")]
                  /\ regSeq' = regSeq + 1
                  /\ tables' = WithRows(n, tables[n].rows \cup
                        {NewRow(regSeq + 1, proc[s].eventId, proc[s].name,
                                proc[s].email, proc[s].token)})
    /\ UNCHANGED <<triggerInstalled, events, eventSeq, mailbox, opsStarted, out>>

\* registerForEvent with the error of the insert logged and not returned
InsertErrorIgnored(s) ==
    /\ proc[s].op = "register" /\ proc[s].pc = "insert"
    /\ LET n == tableName(proc[s].title, proc[s].eventId)
           error == InsertError(n, proc[s].eventId, proc[s].email)
       IN /\ proc' = [proc EXCEPT ![s] = Step(proc[s], "selectId")]
          /\ regSeq' = IF error = "" THEN regSeq + 1 ELSE regSeq
          /\ tables' = IF error = ""
                       THEN WithRows(n, tables[n].rows \cup
                               {NewRow(regSeq + 1, proc[s].eventId, proc[s].name,
                                       proc[s].email, proc[s].token)})
                       ELSE tables
    /\ UNCHANGED <<triggerInstalled, events, eventSeq, mailbox, opsStarted, out>>

\* registerForEvent: the insert of the registration row; code 23505 is the
\* duplicate registration, any other error is reported by its own message;
\* the route reports both with status 400
Insert(s) ==
    /\ proc[s].op = "register" /\ proc[s].pc = "insert"
    /\ LET n == tableName(proc[s].title, proc[s].eventId)
           error == InsertError(n, proc[s].eventId, proc[s].email)
       IN    IF error # ""
             THEN /\ proc' = [proc EXCEPT ![s] =
                        Done(proc[s], error,
                             ErrorResponse(400,
                                 IF error = UniqueViolation THEN AlreadyRegistered
                                 ELSE error))]
                  /\ UNCHANGED <<tables, regSeq>>
             ELSE /\ proc' = [proc EXCEPT ![s] = Step(proc[s], "selectId")]
                  /\ regSeq' = regSeq + 1
                  /\ tables' = WithRows(n, tables[n].rows \cup
                        {NewRow(regSeq + 1, proc[s].eventId, proc[s].name,
                                proc[s].email, proc[s].token)})
    /\ UNCHANGED <<triggerInstalled, events, eventSeq, mailbox, opsStarted, out>>

\* a mail that was not accepted reported as a failure of the registration
NotificationFailedAsError == ErrorResponse(500, "Failed to send confirmation email")

\* the route with no answer for a mail that was not accepted
NotificationUnanswered == NoResp

\* the response when the confirmation mail was not accepted
NotificationFailed ==
    [NoResp EXCEPT !.status = 200, !.success = TRUE,
        !.warning = "Registration successful, but failed to send confirmation email.",
        !.message = "Registration successful."]

\* the response of a registration whose mail was accepted
Registered(registrationId) ==
    [NoResp EXCEPT !.status = 200, !.success = TRUE,
        !.message = "Registration successful!",
        !.qrCodeUrl = IF registrationId # 0
                      THEN getProductionQRCodeUrl(registrationId) ELSE <<>>,
        !.registrationId = registrationId]

\* the route reads the id of the row back by email with .single() (the
\* error of that query is dropped and the id is then undefined), then sends
\* the mail, sendQRCodeEmailWithUrl when the id is known and sendQRCodeEmail
\* otherwise; the transport accepts the mail or not
SelectIdAndSendMail(s) ==
    /\ proc[s].op = "register" /\ proc[s].pc = "selectId"
    /\ LET n == tableName(proc[s].title, proc[s].eventId)
           found == IF n \in DOMAIN tables
                    THEN {r \in tables[n].rows : r.email = proc[s].email} ELSE {}
           error == IF Cardinality(found) = 1 THEN "" ELSE NoRows
       IN \E success \in BOOLEAN :
             LET registrationId == IF error = "" THEN (CHOOSE r \in found : TRUE).id
                                   ELSE 0
                 req == [proc[s] EXCEPT !.regId = registrationId]
             IN IF success
                THEN /\ mailbox' = mailbox \cup
                           {[to |-> proc[s].email, registrationId |-> registrationId,
                             qrdata |-> proc[s].token]}
                     /\ proc' = [proc EXCEPT ![s] =
                           Done(req, error, Registered(registrationId))]
                ELSE /\ mailbox' = mailbox
                     /\ proc' = [proc EXCEPT ![s] = Done(req, error, NotificationFailed)]
    /\ UNCHANGED <<triggerInstalled, events, eventSeq, tables, regSeq, opsStarted, out>>

(* ----------------------------- deleteEvent ----------------------------- *)

\* the result { success, error } of deleteEvent
DeleteResult(success, error) == [NoResp EXCEPT !.success = success, !.error = error]

\* the title is read to build the name of the attendance table
StartDelete(s, eventId) ==
    /\ Free(s)
    /\ opsStarted < OpsBound
    /\ opsStarted' = opsStarted + 1
    /\ LET req == [Idle EXCEPT !.op = "delete", !.seq = opsStarted + 1,
                               !.eventId = eventId]
           eventError == IF eventId \in DOMAIN events THEN "" ELSE NoRows
       IN    IF eventError # ""
             THEN proc' = [proc EXCEPT ![s] =
                      Done(req, eventError,
                           DeleteResult(FALSE, "Failed to get event details for deletion"))]
             ELSE proc' = [proc EXCEPT ![s] =
                      [req EXCEPT !.pc = "delRows", !.title = events[eventId].title]]
    /\ UNCHANGED <<triggerInstalled, events, eventSeq, tables, regSeq, mailbox, out>>

\* deleteEvent with the error of the row deletion logged and not returned
DelRowsErrorIgnored(s) ==
    /\ proc[s].op = "delete" /\ proc[s].pc = "delRows"
    /\ LET n == tableName(proc[s].title, proc[s].eventId)
       IN /\ proc' = [proc EXCEPT ![s] = Step(proc[s], "delEvent")]
          /\ tables' = IF n \in DOMAIN tables THEN WithRows(n, {}) ELSE tables
    /\ UNCHANGED <<triggerInstalled, events, eventSeq, regSeq, mailbox, opsStarted, out>>

\* from(tableName).delete().not('id', 'is', null): every row of the table;
\* an error ends deleteEvent before the event is touched
DelRows(s) ==
    /\ proc[s].op = "delete" /\ proc[s].pc = "delRows"
    /\ LET n == tableName(proc[s].title, proc[s].eventId)
           deleteAttendanceError == SelectError(n)
       IN    IF deleteAttendanceError # ""
             THEN /\ proc' = [proc EXCEPT ![s] =
                        Done(proc[s], deleteAttendanceError,
                             DeleteResult(FALSE, "Failed to delete event attendance records"))]
                  /\ tables' = tables
             ELSE /\ proc' = [proc EXCEPT ![s] = Step(proc[s], "delEvent")]
                  /\ tables' = WithRows(n, {})
    /\ UNCHANGED <<triggerInstalled, events, eventSeq, regSeq, mailbox, opsStarted, out>>

\* the event delete with no foreign key from the attendance tables to events
DelEventUnreferenced(s) ==
    /\ proc[s].op = "delete" /\ proc[s].pc = "delEvent"
    /\ proc' = [proc EXCEPT ![s] = Done(proc[s], "", DeleteResult(TRUE, ""))]
    /\ events' = WithoutEvent(proc[s].eventId)
    /\ UNCHANGED <<triggerInstalled, eventSeq, tables, regSeq, mailbox, opsStarted, out>>

\* from('events').delete().eq('id', eventId).  Rows that still reference the
\* event are held by two foreign keys, the column's REFERENCES events(id) and
\* fk_<table>_event_id ... ON DELETE CASCADE: the delete is refused or the
\* rows go with the event, as the engine orders the two checks
DelEvent(s) ==
    /\ proc[s].op = "delete" /\ proc[s].pc = "delEvent"
    /\ LET e == proc[s].eventId
           error == IF e \in DOMAIN events /\ Referencing(e) # {}
                    THEN ForeignKeyViolation ELSE ""
       IN \E cascade \in BOOLEAN :
             IF error = ForeignKeyViolation /\ ~cascade
             THEN /\ proc' = [proc EXCEPT ![s] =
                        Done(proc[s], error, DeleteResult(FALSE, error))]
                  /\ UNCHANGED <<events, tables>>
             ELSE /\ proc' = [proc EXCEPT ![s] =
                        Done(proc[s], "", DeleteResult(TRUE, ""))]
                  /\ events' = WithoutEvent(e)
                  /\ tables' = IF e \in DOMAIN events THEN Cascaded(e) ELSE tables
    /\ UNCHANGED <<triggerInstalled, eventSeq, regSeq, mailbox, opsStarted, out>>

(* -------------------------- isUserRegistered --------------------------- *)
(* The reads change nothing in the store and are one step each; out holds  *)
(* what the last read was asked and what it answered.                       *)

\* the older isUserRegistered, which reports every error of the query
isUserRegisteredEveryError(eventId, email) ==
    LET n == tableName(events[eventId].title, eventId)
        error == SelectError(n)
    IN [NoResp EXCEPT
           !.success = /\ error = ""
                       /\ \E r \in tables[n].rows : r.email = email,
           !.error = error]

\* isUserRegistered(eventId, eventTitle, email) with the title of the event
\* as the component displays it: select('id').eq('email', email).limit(1);
\* an absent table is "not registered" with no error, any other error is
\* reported
isUserRegistered(eventId, email) ==
    LET n == tableName(events[eventId].title, eventId)
        error == SelectError(n)
    IN [NoResp EXCEPT
           !.success = /\ error = ""
                       /\ \E r \in tables[n].rows : r.email = email,
           !.error = IF error \in {"", UndefinedTable} THEN "" ELSE error]

\* the call, for an event the page lists
IsUserRegistered(eventId, email) ==
    /\ eventId \in DOMAIN events
    /\ out' = [op |-> "isRegistered", eventId |-> eventId, email |-> email,
               regId |-> 0,
               err |-> SelectError(tableName(events[eventId].title, eventId)),
               resp |-> isUserRegistered(eventId, email)]
    /\ UNCHANGED <<triggerInstalled, events, eventSeq, tables, regSeq, mailbox,
                   proc, opsStarted>>

(* ---------------- GET /api/qrcode/registration/[id] -------------------- *)

\* the orders in which select('id, title') may list the events
EventLists ==
    {l \in [1..Cardinality(DOMAIN events) -> DOMAIN events] :
        \A i, j \in DOMAIN l : i # j => l[i] # l[j]}

\* the rows the query of one event's table for the id returns with no error:
\* .single() wants exactly one row, and an absent table is an error
Hit(event, registrationId) ==
    LET n == tableName(events[event].title, event)
    IN IF n \in DOMAIN tables
       THEN {r \in tables[n].rows : r.id = registrationId} ELSE {}

\* the loop over the listed events: the qrdata of the first event whose
\* table holds the id, <<>> when none does
ScanResult(list, registrationId) ==
    LET hits == {i \in DOMAIN list : Hit(list[i], registrationId) # {}}
    IN IF hits = {} THEN <<>>
       ELSE LET first == CHOOSE i \in hits : \A j \in hits : i <= j
            IN (CHOOSE r \in Hit(list[first], registrationId) : TRUE).qrdata

\* the queries of attendance tables the loop issues for a list: one for each
\* event up to the first whose table holds the id, where it breaks
Queries(list, registrationId) ==
    LET hits == {i \in DOMAIN list : Hit(list[i], registrationId) # {}}
    IN IF hits = {} THEN Len(list)
       ELSE CHOOSE i \in hits : \A j \in hits : i <= j

\* the response of GET for registrationId when the events are listed as
\* list.  from('events').select('id, title'): an error or an empty list is a
\* 500; else the loop, then 404 when no table held the id and the stored
\* qrdata rendered as a PNG when one did
Respond(list, registrationId) ==
    IF DOMAIN events = {}
    THEN ErrorResponse(500, "Error retrieving events")
    ELSE LET qrData == ScanResult(list, registrationId)
         IN IF qrData = <<>>
            THEN ErrorResponse(404, "Registration not found")
            ELSE [NoResp EXCEPT !.status = 200, !.png = qrData]

\* the responses of GET for registrationId, one for each order the events
\* may be listed in
GET(registrationId) == {Respond(list, registrationId) : list \in EventLists}

\* the request
Lookup(registrationId) ==
    /\ \E list \in EventLists :
          out' = [op |-> "lookup", eventId |-> 0, email |-> "",
                  regId |-> registrationId, err |-> "",
                  resp |-> Respond(list, registrationId),
                  queries |-> Queries(list, registrationId)]
    /\ UNCHANGED <<triggerInstalled, events, eventSeq, tables, regSeq, mailbox,
                   proc, opsStarted>>

(* ----------------------- createEvent, updateEvent ---------------------- *)

\* the event is inserted with a generated id; the AFTER INSERT trigger, where
\* installed, creates its attendance table in the same statement
CreateEvent(title) ==
    /\ eventSeq < MaxEvents
    /\ eventSeq' = eventSeq + 1
    /\ events' = events @@ ((eventSeq + 1) :> [title |-> title])
    /\ tables' = IF triggerInstalled
                 THEN tables @@ (triggerTableName(title, eventSeq + 1) :> TriggerTable)
                 ELSE tables
    /\ UNCHANGED <<triggerInstalled, regSeq, mailbox, proc, out, opsStarted>>

\* from('events').update(eventData).eq('id', eventId): the title is among
\* the fields an update may change
UpdateEvent(eventId, title) ==
    /\ eventId \in DOMAIN events
    /\ opsStarted < OpsBound
    /\ opsStarted' = opsStarted + 1
    /\ events' = [events EXCEPT ![eventId].title = title]
    /\ UNCHANGED <<triggerInstalled, eventSeq, tables, regSeq, mailbox, proc, out>>

(* ------------------- the token, code unit by code unit ----------------- *)
(* Strings are sequences of UTF-16 code units, buffers sequences of bytes. *)

\* the code units the fields are written with: a, the quote, the backslash,
\* the line feed, e acute (two bytes in UTF-8), the euro sign (three bytes),
\* a lead and a trail surrogate (four bytes as a pair)
CodeUnits == {97, 34, 92, 10, 233, 8364, 55296, 56320}

\* the strings of at most n code units
RECURSIVE Strings(_)
Strings(n) ==
    IF n = 0 THEN {<<>>}
    ELSE Strings(n - 1)
         \cup {Append(str, c) : str \in {x \in Strings(n - 1) : Len(x) = n - 1},
                                c \in CodeUnits}

\* the metadata objects generateEventQRCode is given
Metadata ==
    [name : Strings(MaxLen), email : {<<97>>, <<34, 233>>},
     event : {<<>>, <<92, 56320>>}, eventId : {<<49>>}, timestamp : {<<50>>}]

IsLead(c) == c >= 55296 /\ c <= 56319
IsTrail(c) == c >= 56320 /\ c <= 57343

\* a hexadecimal digit in lower case, and the four of a code unit
HexDigit(d) == IF d < 10 THEN 48 + d ELSE 87 + d
Hex4(c) ==
    <<HexDigit(c \div 4096), HexDigit((c \div 256) % 16),
      HexDigit((c \div 16) % 16), HexDigit(c % 16)>>

\* JSON.stringify of one code unit of a string (QuoteJSONString)
EscapeUnit(c) ==
    CASE c = 8 -> <<92, 98>>
      [] c = 9 -> <<92, 116>>
      [] c = 10 -> <<92, 110>>
      [] c = 12 -> <<92, 102>>
      [] c = 13 -> <<92, 114>>
      [] c = 34 -> <<92, 34>>
      [] c = 92 -> <<92, 92>>
      [] OTHER -> IF c < 32 \/ IsLead(c) \/ IsTrail(c)
                  THEN <<92, 117>> \o Hex4(c) ELSE <<c>>

\* the concatenation of pieces[lo], ..., pieces[hi]
RECURSIVE Concat(_, _, _)
Concat(pieces, lo, hi) ==
    IF lo > hi THEN <<>>
    ELSE IF lo = hi THEN pieces[lo]
    ELSE LET mid == (lo + hi) \div 2
         IN Concat(pieces, lo, mid) \o Concat(pieces, mid + 1, hi)

\* the i-th code unit of str is half of a surrogate pair
Paired(str, i) ==
    \/ IsLead(str[i]) /\ i < Len(str) /\ IsTrail(str[i + 1])
    \/ IsTrail(str[i]) /\ i > 1 /\ IsLead(str[i - 1])

\* JSON.stringify of a string, the quotes apart: a surrogate pair is kept,
\* a lone surrogate is escaped
Quote(str) ==
    Concat([i \in 1..Len(str) |->
               IF Paired(str, i) THEN <<str[i]>> ELSE EscapeUnit(str[i])],
           1, Len(str))

\* the property names of metadata: name, email, event, eventId, timestamp
Keys ==
    [name |-> <<110, 97, 109, 101>>, email |-> <<101, 109, 97, 105, 108>>,
     event |-> <<101, 118, 101, 110, 116>>,
     eventId |-> <<101, 118, 101, 110, 116, 73, 100>>,
     timestamp |-> <<116, 105, 109, 101, 115, 116, 97, 109, 112>>]

\* "key":"value"
Member(key, value) ==
    <<34>> \o key \o <<34, 58, 34>> \o Quote(value) \o <<34>>

\* JSON.stringify(metadata), the properties in the order of the literal
JSONstringify(metadata) ==
    <<123>> \o Member(Keys.name, metadata.name)
    \o <<44>> \o Member(Keys.email, metadata.email)
    \o <<44>> \o Member(Keys.event, metadata.event)
    \o <<44>> \o Member(Keys.eventId, metadata.eventId)
    \o <<44>> \o Member(Keys.timestamp, metadata.timestamp) \o <<125>>

\* Buffer.from(str, 'latin1'): the low byte of each code unit
Latin1(str) == [i \in 1..Len(str) |-> str[i] % 256]

\* the UTF-8 bytes written for the i-th code unit of str: a surrogate pair
\* is written at its lead, a lone surrogate as U+FFFD
Utf8Unit(str, i) ==
    LET c == str[i]
    IN IF c < 128 THEN <<c>>
       ELSE IF c < 2048 THEN <<192 + (c \div 64), 128 + (c % 64)>>
       ELSE IF IsLead(c) /\ Paired(str, i)
       THEN LET cp == 65536 + (c - 55296) * 1024 + (str[i + 1] - 56320)
            IN <<240 + (cp \div 262144), 128 + ((cp \div 4096) % 64),
                 128 + ((cp \div 64) % 64), 128 + (cp % 64)>>
       ELSE IF IsTrail(c) /\ Paired(str, i) THEN <<>>
       ELSE IF IsLead(c) \/ IsTrail(c) THEN <<239, 191, 189>>
       ELSE <<224 + (c \div 4096), 128 + ((c \div 64) % 64), 128 + (c % 64)>>

\* Buffer.from(str): the UTF-8 bytes of the string
Utf8(str) == Concat([i \in 1..Len(str) |-> Utf8Unit(str, i)], 1, Len(str))

\* the base64 alphabet: A-Z, a-z, 0-9, + and /
Base64Char(v) ==
    IF v < 26 THEN 65 + v
    ELSE IF v < 52 THEN 97 + (v - 26)
    ELSE IF v < 62 THEN 48 + (v - 52)
    ELSE IF v = 62 THEN 43 ELSE 47

\* the four characters of the k-th group of three bytes, padded with = (61)
Base64Group(bytes, k) ==
    LET i == 3 * k - 2
    IN IF i = Len(bytes)
       THEN <<Base64Char(bytes[i] \div 4), Base64Char((bytes[i] % 4) * 16), 61, 61>>
       ELSE IF i + 1 = Len(bytes)
       THEN <<Base64Char(bytes[i] \div 4),
              Base64Char((bytes[i] % 4) * 16 + (bytes[i + 1] \div 16)),
              Base64Char((bytes[i + 1] % 16) * 4), 61>>
       ELSE <<Base64Char(bytes[i] \div 4),
              Base64Char((bytes[i] % 4) * 16 + (bytes[i + 1] \div 16)),
              Base64Char((bytes[i + 1] % 16) * 4 + (bytes[i + 2] \div 64)),
              Base64Char(bytes[i + 2] % 64)>>

\* buf.toString('base64')
Base64(bytes) ==
    LET groups == (Len(bytes) + 2) \div 3
    IN Concat([k \in 1..groups |-> Base64Group(bytes, k)], 1, groups)

\* generateEventQRCode: encodedMetadata
encodedMetadata(metadata) == Base64(Utf8(JSONstringify(metadata)))

\* the value of a base64 character, 64 for a character outside the alphabet
Base64Value(c) ==
    IF c >= 65 /\ c <= 90 THEN c - 65
    ELSE IF c >= 97 /\ c <= 122 THEN c - 97 + 26
    ELSE IF c >= 48 /\ c <= 57 THEN c - 48 + 52
    ELSE IF c \in {43, 45} THEN 62
    ELSE IF c \in {47, 95} THEN 63 ELSE 64

\* the 6-bit values of the text up to the first = (61); a character outside
\* the alphabet is skipped, the decoder of Buffer.from reports no error
Sextets(text) ==
    LET padding == {i \in 1..Len(text) : text[i] = 61}
        n == IF padding = {} THEN Len(text)
             ELSE (CHOOSE i \in padding : \A j \in padding : i <= j) - 1
        legal == SelectSeq(SubSeq(text, 1, n), LAMBDA c : Base64Value(c) < 64)
    IN [i \in 1..Len(legal) |-> Base64Value(legal[i])]

\* the bytes of the k-th group of four 6-bit values, bits left over dropped
Octets(v, k) ==
    LET i == 4 * k - 3
    IN IF i = Len(v) THEN <<>>
       ELSE IF i + 1 = Len(v) THEN <<v[i] * 4 + (v[i + 1] \div 16)>>
       ELSE IF i + 2 = Len(v)
       THEN <<v[i] * 4 + (v[i + 1] \div 16), (v[i + 1] % 16) * 16 + (v[i + 2] \div 4)>>
       ELSE <<v[i] * 4 + (v[i + 1] \div 16), (v[i + 1] % 16) * 16 + (v[i + 2] \div 4),
              (v[i + 2] % 4) * 64 + v[i + 3]>>

\* Buffer.from(encodedData, 'base64')
Base64Decode(text) ==
    LET v == Sextets(text)
        groups == (Len(v) + 3) \div 4
    IN Concat([k \in 1..groups |-> Octets(v, k)], 1, groups)

IsContinuation(bytes, i) == i <= Len(bytes) /\ bytes[i] >= 128 /\ bytes[i] <= 191

\* the bytes of the well-formed UTF-8 sequence that starts at the i-th
\* byte, 0 when none does
SequenceLength(bytes, i) ==
    LET b == bytes[i]
    IN IF b < 128 THEN 1
       ELSE IF b >= 194 /\ b <= 223 /\ IsContinuation(bytes, i + 1) THEN 2
       ELSE IF /\ b >= 224 /\ b <= 239
               /\ IsContinuation(bytes, i + 1) /\ IsContinuation(bytes, i + 2)
               /\ (b - 224) * 4096 + (bytes[i + 1] - 128) * 64 >= 2048
               /\ ~IsLead((b - 224) * 4096 + (bytes[i + 1] - 128) * 64)
               /\ ~IsTrail((b - 224) * 4096 + (bytes[i + 1] - 128) * 64)
       THEN 3
       ELSE IF /\ b >= 240 /\ b <= 244
               /\ IsContinuation(bytes, i + 1) /\ IsContinuation(bytes, i + 2)
               /\ IsContinuation(bytes, i + 3)
               /\ (b - 240) * 262144 + (bytes[i + 1] - 128) * 4096 >= 65536
               /\ (b - 240) * 262144 + (bytes[i + 1] - 128) * 4096 <= 1114111
       THEN 4 ELSE 0

\* the code units read at the i-th byte: none at a byte of a sequence that
\* started before it, U+FFFD at a byte that starts no well-formed sequence
Utf8DecodeAt(bytes, i) ==
    LET b == bytes[i]
        n == SequenceLength(bytes, i)
        cp4 == (b - 240) * 262144 + (bytes[i + 1] - 128) * 4096
               + (bytes[i + 2] - 128) * 64 + (bytes[i + 3] - 128)
    IN IF \E k \in 1..3 : i - k >= 1 /\ SequenceLength(bytes, i - k) > k THEN <<>>
       ELSE IF n = 0 THEN <<65533>>
       ELSE IF n = 1 THEN <<b>>
       ELSE IF n = 2 THEN <<(b - 192) * 64 + (bytes[i + 1] - 128)>>
       ELSE IF n = 3
       THEN <<(b - 224) * 4096 + (bytes[i + 1] - 128) * 64 + (bytes[i + 2] - 128)>>
       ELSE <<55296 + ((cp4 - 65536) \div 1024), 56320 + ((cp4 - 65536) % 1024)>>

\* buf.toString('utf-8')
Utf8Decode(bytes) ==
    Concat([i \in 1..Len(bytes) |-> Utf8DecodeAt(bytes, i)], 1, Len(bytes))

\* the value of a hexadecimal digit, 16 for any other code unit
HexValue(c) ==
    IF c >= 48 /\ c <= 57 THEN c - 48
    ELSE IF c >= 97 /\ c <= 102 THEN c - 87
    ELSE IF c >= 65 /\ c <= 70 THEN c - 55 ELSE 16

\* JSON.parse throws
SyntaxErrorThrown == [ok |-> FALSE, val |-> <<>>, next |-> 0]

\* JSON.parse of a string from the code unit after its opening quote: the
\* string read so far is acc; val is the string and next the place after
\* the closing quote
RECURSIVE ParseString(_, _, _)
ParseString(text, i, acc) ==
    IF i > Len(text) THEN SyntaxErrorThrown
    ELSE IF text[i] = 34 THEN [ok |-> TRUE, val |-> acc, next |-> i + 1]
    ELSE IF text[i] < 32 THEN SyntaxErrorThrown
    ELSE IF text[i] # 92 THEN ParseString(text, i + 1, Append(acc, text[i]))
    ELSE IF i + 1 > Len(text) THEN SyntaxErrorThrown
    ELSE LET e == text[i + 1]
         IN IF e \in {34, 92, 47} THEN ParseString(text, i + 2, Append(acc, e))
            ELSE IF e = 98 THEN ParseString(text, i + 2, Append(acc, 8))
            ELSE IF e = 102 THEN ParseString(text, i + 2, Append(acc, 12))
            ELSE IF e = 110 THEN ParseString(text, i + 2, Append(acc, 10))
            ELSE IF e = 114 THEN ParseString(text, i + 2, Append(acc, 13))
            ELSE IF e = 116 THEN ParseString(text, i + 2, Append(acc, 9))
            ELSE IF /\ e = 117 /\ i + 5 <= Len(text)
                    /\ \A k \in 2..5 : HexValue(text[i + k]) < 16
            THEN ParseString(text, i + 6,
                     Append(acc, HexValue(text[i + 2]) * 4096
                                 + HexValue(text[i + 3]) * 256
                                 + HexValue(text[i + 4]) * 16
                                 + HexValue(text[i + 5])))
            ELSE SyntaxErrorThrown

\* the members of an object from the i-th code unit on, each a string
\* property with a string value; a later property of the same name replaces
\* the earlier one
RECURSIVE ParseMembers(_, _, _)
ParseMembers(text, i, object) ==
    IF i > Len(text) \/ text[i] # 34 THEN SyntaxErrorThrown
    ELSE LET key == ParseString(text, i + 1, <<>>)
         IN IF ~key.ok \/ key.next + 1 > Len(text)
               \/ text[key.next] # 58 \/ text[key.next + 1] # 34
            THEN SyntaxErrorThrown
            ELSE LET value == ParseString(text, key.next + 2, <<>>)
                     members == (key.val :> value.val) @@ object
                 IN IF ~value.ok \/ value.next > Len(text) THEN SyntaxErrorThrown
                    ELSE IF text[value.next] = 44
                    THEN ParseMembers(text, value.next + 1, members)
                    ELSE IF text[value.next] = 125 /\ value.next = Len(text)
                    THEN [ok |-> TRUE, val |-> members, next |-> value.next + 1]
                    ELSE SyntaxErrorThrown

\* JSON.parse of the text of an object of string properties
JSONparse(text) ==
    IF Len(text) < 2 \/ text[1] # 123 THEN SyntaxErrorThrown
    ELSE IF Len(text) = 2 /\ text[2] = 125
    THEN [ok |-> TRUE, val |-> <<>>, next |-> 3]
    ELSE ParseMembers(text, 2, <<>>)

\* decodeQRData(encodedData)
decodeQRData(encodedData) ==
    LET decodedString == Utf8Decode(Base64Decode(encodedData))
        decodedData == JSONparse(decodedString)
    IN IF decodedData.ok
       THEN [success |-> TRUE, data |-> decodedData.val, error |-> ""]
       ELSE [success |-> FALSE, data |-> <<>>, error |-> "SyntaxError"]

\* the first call of generateEventQRCode, the clock's reading part of the
\* input
GenerateEventQRCode(metadata) ==
    /\ out.op = "none"
    /\ out' = [op |-> "generateEventQRCode", metadata |-> metadata,
               encodedMetadata |-> encodedMetadata(metadata)]
    /\ UNCHANGED <<triggerInstalled, events, eventSeq, tables, regSeq, mailbox, proc, opsStarted>>

\* a call of decodeQRData with the token generated last
DecodeQRData ==
    /\ out.op = "generateEventQRCode"
    /\ out' = [op |-> "decodeQRData", metadata |-> out.metadata,
               encodedMetadata |-> out.encodedMetadata,
               resp |-> decodeQRData(out.encodedMetadata)]
    /\ UNCHANGED <<triggerInstalled, events, eventSeq, tables, regSeq, mailbox, proc, opsStarted>>

\* strings a caller can hand to decodeQRData: not-base64!!, the empty
\* string, e30= ({} encoded), e30 (the same without padding), e!30 (the same
\* with a character outside the alphabet), eyJh (an object cut short) and
\* a token of generateEventQRCode
DecodeTokens ==
    {<<110, 111, 116, 45, 98, 97, 115, 101, 54, 52, 33, 33>>,
     <<>>,
     <<101, 51, 48, 61>>,
     <<101, 51, 48>>,
     <<101, 33, 51, 48>>,
     <<101, 121, 74, 104>>,
     encodedMetadata([name |-> <<97>>, email |-> <<97>>, event |-> <<>>,
                      eventId |-> <<49>>, timestamp |-> <<50>>])}

\* a call of decodeQRData with a string that is the caller's
DecodeToken(encodedData) ==
    /\ out.op = "none"
    /\ out' = [op |-> "decodeToken", encodedData |-> encodedData,
               resp |-> decodeQRData(encodedData)]
    /\ UNCHANGED <<triggerInstalled, events, eventSeq, tables, regSeq, mailbox, proc, opsStarted>>

NextCodec ==
    \/ \E metadata \in Metadata : GenerateEventQRCode(metadata)
    \/ DecodeQRData
    \/ \E encodedData \in DecodeTokens : DecodeToken(encodedData)

\* the two functions of the codec called on their own
SpecCodec == Init /\ [][NextCodec]_vars

(* ------------------------- the table names ----------------------------- *)

\* the titles of at most n characters
RECURSIVE TitlesUpTo(_)
TitlesUpTo(n) ==
    IF n = 0 THEN {<<>>}
    ELSE TitlesUpTo(n - 1)
         \cup {Append(t, c) : t \in {x \in TitlesUpTo(n - 1) : Len(x) = n - 1},
                              c \in {"F", "g", "!", " ", "0"}}

\* "Fall Kickoff!"
FallKickoff == <<"F", "a", "l", "l", " ", "K", "i", "c", "k", "o", "f", "f", "!">>

\* the name of the attendance table of the event (title, eventId) as the
\* functions of the application compute it (registerForEvent,
\* isUserRegistered, deleteEvent and the two routes hold the same two
\* lines) and as the insert trigger on events computes it
TableNames(title, eventId) ==
    /\ out.op = "none"
    /\ out' = [op |-> "tableName", title |-> title, eventId |-> eventId,
               application |-> tableName(title, eventId),
               trigger |-> triggerTableName(title, eventId)]
    /\ UNCHANGED <<triggerInstalled, events, eventSeq, tables, regSeq, mailbox, proc, opsStarted>>

\* the identifiers PostgreSQL keeps: NAMEDATALEN - 1 bytes, the rest of a
\* longer name is cut off, in CREATE TABLE %I as in every query of the table
IdentifierLimit == 63

\* an id as gen_random_uuid() writes it, 36 characters in the groups
\* 8-4-4-4-12; the k-th id of the model differs from the others at place
UuidText(k, place) ==
    [i \in 1..36 |-> IF i \in {9, 14, 19, 24} THEN "-"
                     ELSE IF i = place THEN <<"1", "2", "3", "4", "5">>[k] ELSE "0"]

\* the ids of the events, told apart by their first or by their last character
Uuids == {UuidText(k, place) : k \in 1..MaxEvents, place \in {1, 36}}

\* a title of n characters that ends with c
TitleOfLength(n, c) == [i \in 1..n |-> IF i = n THEN c ELSE "g"]

\* titles short and long: of one character, of the greatest length whose
\* name fits with the whole id, and of the lengths around the limit
LongTitles ==
    {TitleOfLength(n, c) :
        n \in {1, IdentifierLimit - 43, IdentifierLimit - 8, IdentifierLimit - 7},
        c \in {"g", "0"}}

\* the characters of a table name, and the relation PostgreSQL resolves
\* them to
relation(name) ==
    LET characters == <<"e", "v", "e", "n", "t", "_">> \o name[2] \o <<"_">> \o name[4]
    IN IF Len(characters) > IdentifierLimit
       THEN SubSeq(characters, 1, IdentifierLimit) ELSE characters

\* the relations that hold the registrations of two events there are
Relations(first, second) ==
    /\ out.op = "none"
    /\ first.eventId # second.eventId
    /\ out' = [op |-> "relations", first |-> first, second |-> second,
               relations |-> <<relation(tableName(first.title, first.eventId)),
                               relation(tableName(second.title, second.eventId))>>]
    /\ UNCHANGED <<triggerInstalled, events, eventSeq, tables, regSeq, mailbox, proc, opsStarted>>

NextNames ==
    \/ \E title \in TitlesUpTo(MaxTitleLen) \cup {FallKickoff}, eventId \in 1..MaxEvents :
          TableNames(title, eventId)
    \/ \E first, second \in [title : LongTitles, eventId : Uuids] :
          Relations(first, second)

\* the computation of the table names on its own
SpecNames == Init /\ [][NextNames]_vars

\* the calls that write: the events, the registrations, the deletions
\* ---- navigation: the middleware and the pages' effects ----

\* the user cookie the browser sends: none, the JSON of a student's or an
\* admin's profile, or a value JSON.parse throws on
Cookies == {"absent", "student", "admin", "unparseable"}

\* localStorage's user item: none, or the JSON of a profile
StoredSessions == {"absent", "student", "admin"}

\* config.matcher, each pattern by the path visited
Paths == {"/", "/login", "/signup", "/dashboard", "/admin/dashboard"}

\* middleware(req): the path it redirects to, or "next"
middleware(path, cookie) ==
    LET hasSession == cookie # "absent"
        userRole == IF cookie = "admin" THEN "admin" ELSE "student"
    IN IF path = "/admin/dashboard" /\ (~hasSession \/ userRole # "admin")
       THEN "/login"
       ELSE IF path = "/dashboard" /\ ~hasSession THEN "/login"
       ELSE IF path \in {"/login", "/signup"} /\ hasSession
       THEN IF userRole = "admin" THEN "/admin/dashboard" ELSE "/dashboard"
       ELSE IF path = "/"
       THEN IF hasSession
            THEN IF userRole = "admin" THEN "/admin/dashboard" ELSE "/dashboard"
            ELSE "/login"
       ELSE "next"

\* getCurrentUser(): data.user
getCurrentUser(stored) == stored

\* the checkAuth effect of the page at the path: the path it pushes, or
\* "none"; Home pushes /login when its timer fires
checkAuth(path, stored) ==
    LET user == getCurrentUser(stored)
    IN IF path = "/login"
       THEN IF user = "absent" THEN "none"
            ELSE IF user = "admin" THEN "/admin/dashboard" ELSE "/dashboard"
       ELSE IF path = "/signup"
       THEN IF user = "absent" THEN "none" ELSE "/dashboard"
       ELSE IF path = "/dashboard"
       THEN IF user = "absent" THEN "/login" ELSE "none"
       ELSE IF path = "/admin/dashboard"
       THEN IF user = "absent" THEN "/login"
            ELSE IF user # "admin" THEN "/dashboard" ELSE "none"
       ELSE "/login"

\* the browser asks for a path; requested lists the paths asked for since
Visit(cookie, stored, path) ==
    /\ out.op = "none"
    /\ out' = [op |-> "navigation", cookie |-> cookie, stored |-> stored,
               at |-> "middleware", path |-> path, requested |-> <<path>>,
               response |-> "none"]
    /\ UNCHANGED <<triggerInstalled, events, eventSeq, tables, regSeq, mailbox, proc, opsStarted>>

\* a path is asked for a second time with cookie and stored session as they
\* were the first time
Cycled ==
    \E i, j \in 1..Len(out.requested) : i # j /\ out.requested[i] = out.requested[j]

\* the middleware answers the request: the browser follows a redirect with
\* a request for its target, or the page of the path is rendered
Middleware ==
    /\ out.op = "navigation" /\ out.at = "middleware" /\ ~Cycled
    /\ LET response == middleware(out.path, out.cookie)
       IN out' = IF response = "next"
                 THEN [out EXCEPT !.at = "page", !.response = response]
                 ELSE [out EXCEPT !.path = response, !.response = response,
                                  !.requested = Append(@, response)]
    /\ UNCHANGED <<triggerInstalled, events, eventSeq, tables, regSeq, mailbox, proc, opsStarted>>

\* the page's effect runs: router.push asks for the path, or the page stays
Page ==
    /\ out.op = "navigation" /\ out.at = "page"
    /\ LET pushed == checkAuth(out.path, out.stored)
       IN out' = IF pushed = "none"
                 THEN [out EXCEPT !.at = "settled"]
                 ELSE [out EXCEPT !.at = "middleware", !.path = pushed,
                                  !.requested = Append(@, pushed)]
    /\ UNCHANGED <<triggerInstalled, events, eventSeq, tables, regSeq, mailbox, proc, opsStarted>>

NextNavigation ==
    \/ \E cookie \in Cookies, stored \in StoredSessions, path \in Paths :
          Visit(cookie, stored, path)
    \/ Middleware
    \/ Page

\* visits of the pages
SpecNavigation == Init /\ [][NextNavigation]_vars

Next ==
    \/ \E title \in Titles : CreateEvent(title)
    \/ \E e \in 1..MaxEvents, title \in Titles : UpdateEvent(e, title)
    \/ \E s \in Slots :
          \/ \E body \in RegisterBodies : StartRegister(s, body)
          \/ TableCheck(s)
          \/ CreateTable(s)
          \/ Insert(s)
          \/ SelectIdAndSendMail(s)
          \/ \E e \in 1..MaxEvents : StartDelete(s, e)
          \/ DelRows(s)
          \/ DelEvent(s)

Spec == Init /\ [][Next]_vars

\* the same program serving three requests at a time
InitRace ==
    /\ triggerInstalled \in BOOLEAN
    /\ events = <<>>
    /\ eventSeq = 0
    /\ tables = <<>>
    /\ regSeq = 0
    /\ mailbox = {}
    /\ proc = [s \in RaceSlots |-> Idle]
    /\ out = [op |-> "none", eventId |-> 0, email |-> "", regId |-> 0, err |-> "",
              resp |-> NoResp]
    /\ opsStarted = 0

NextRace ==
    \/ \E title \in Titles : CreateEvent(title)
    \/ \E e \in 1..MaxEvents, title \in Titles : UpdateEvent(e, title)
    \/ \E s \in RaceSlots :
          \/ \E body \in RegisterBodies : StartRegister(s, body)
          \/ TableCheck(s)
          \/ CreateTable(s)
          \/ Insert(s)
          \/ SelectIdAndSendMail(s)
          \/ \E e \in 1..MaxEvents : StartDelete(s, e)
          \/ DelRows(s)
          \/ DelEvent(s)

SpecRace == InitRace /\ [][NextRace]_vars

\* the same with the reads among them
NextReads ==
    \/ Next
    \/ \E e \in 1..MaxEvents, email \in Emails \ {""} : IsUserRegistered(e, email)
    \/ \E r \in 1..(regSeq + 1) : Lookup(r)

SpecReads == Init /\ [][NextReads]_vars

\* the steps of the register call of slot s after its start
RegisterStep(s) ==
    TableCheck(s) \/ CreateTable(s) \/ Insert(s) \/ SelectIdAndSendMail(s)

NextServed ==
    \/ Next
    \/ \E r \in 1..(regSeq + 1) : Lookup(r)

\* the requests as the server runs them: a handler that awaits a storage or
\* mail call goes on when the call returns, and every call returns
SpecServed ==
    /\ Init /\ [][NextServed]_vars
    /\ \A s \in Slots : WF_vars(RegisterStep(s))

(* ------------------------------ properties ----------------------------- *)

\* slot s holds a request of kind op that has ended
Ended(s, op) == proc[s].op = op /\ proc[s].pc = "done"

\* the request of slot s was still being served when that of slot t started:
\* a request is given a higher slot only while the lower ones are busy
Overlapped(s, t) == s < t /\ 0 < proc[s].seq /\ proc[s].seq < proc[t].seq

\* the register request of slot s came to its storage calls: the body was
\* complete, the event was found and the QR code was generated
PastValidation(s) ==
    proc[s].resp.error \notin {"Missing required fields",
                               "Failed to retrieve event details",
                               "Failed to generate QR code"}

\* the rows of the table the request of slot s derives that have its email
RowsOf(s) ==
    LET n == tableName(proc[s].title, proc[s].eventId)
    IN IF n \in DOMAIN tables
       THEN {r \in tables[n].rows : r.email = proc[s].email} ELSE {}

\* every attendance table holds at most one row per email
OneRowPerEmail ==
    \A n \in DOMAIN tables :
        \A r1, r2 \in tables[n].rows : r1.email = r2.email => r1 = r2

\* C1: every attendance table holds at most one row per email, and the
\* insert of a register request that finds a row with its email in the table
\* of its event adds no row and ends the request with AlreadyRegistered.
C1_OneRowPerEmail ==
    [][/\ OneRowPerEmail'
       /\ \A s \in Slots :
             (/\ proc[s].op = "register" /\ proc[s].pc = "insert"
              /\ proc'[s] # proc[s]
              /\ RowsOf(s) # {})
             => /\ tables' = tables
                /\ proc'[s].pc = "done"
                /\ ~proc'[s].resp.success
                /\ proc'[s].resp.error = AlreadyRegistered]_vars

\* a second registration with the email of a stored row has been refused
C1_Witness ==
    \E s \in Slots :
        /\ Ended(s, "register")
        /\ proc[s].resp.error = AlreadyRegistered
        /\ Cardinality(RowsOf(s)) = 1

\* C2: of two register requests for the same event and email that are served
\* at the same time and both come to their storage calls, one ends with
\* success and the other with AlreadyRegistered, never with another failure
\* (the deployments where the events trigger makes the tables, a creation
\* call refused for its constraint name and an event deleted meanwhile are
\* left aside).
C2_ConcurrentDuplicate ==
    \A s, t \in Slots :
        (/\ Ended(s, "register") /\ Ended(t, "register") /\ Overlapped(s, t)
         /\ proc[s].eventId = proc[t].eventId /\ proc[s].email = proc[t].email
         /\ proc[s].title = proc[t].title
         /\ PastValidation(s) /\ PastValidation(t)
         /\ ~triggerInstalled
         /\ {proc[s].err, proc[t].err} \cap {SyntaxError, ForeignKeyViolation} = {})
        => \E w, l \in {s, t} :
              /\ w # l
              /\ proc[w].resp.success
              /\ proc[l].resp.error = AlreadyRegistered

\* C3: of two register requests with different emails for the same new event
\* that are served at the same time, neither ends with the provisioning
\* error: the creation call of the one that finds the table made by the
\* other is a no-op (a creation call refused for its constraint name is left
\* aside).
C3_CreationIdempotent ==
    \A s, t \in Slots :
        (/\ Ended(s, "register") /\ Ended(t, "register") /\ Overlapped(s, t)
         /\ proc[s].eventId = proc[t].eventId /\ proc[s].email # proc[t].email
         /\ proc[s].title = proc[t].title
         /\ PastValidation(s) /\ PastValidation(t)
         /\ SyntaxError \notin {proc[s].err, proc[t].err})
        => /\ proc[s].resp.error # ProvisioningFailed
           /\ proc[t].resp.error # ProvisioningFailed

\* C4: the name derived for an event from its present title is the name of
\* the table its registrations were stored in.
C4_TableNameStable ==
    \A n \in DOMAIN tables : \A r \in tables[n].rows :
        r.event_id \in DOMAIN events
        => tableName(events[r.event_id].title, r.event_id) = n

\* C5: deleteEvent removes the event row only after its row deletion went
\* through; a row deletion that goes through leaves the table of the event
\* empty and the event in place; one that fails ends the call with the event
\* in place and the failure "Failed to delete event attendance records".
C5_RowsBeforeEvent ==
    [][\A s \in Slots :
          (proc[s].op = "delete" /\ proc'[s] # proc[s])
          => LET n == tableName(proc[s].title, proc[s].eventId)
             IN /\ proc[s].eventId \in DOMAIN events \ DOMAIN events'
                   => proc[s].pc = "delEvent"
                /\ (proc[s].pc = "delRows" /\ n \in DOMAIN tables)
                   => /\ events' = events
                      /\ tables'[n].rows = {}
                      /\ proc'[s].pc = "delEvent"
                /\ (proc[s].pc = "delRows" /\ n \notin DOMAIN tables)
                   => /\ events' = events
                      /\ proc'[s].pc = "done"
                      /\ ~proc'[s].resp.success
                      /\ proc'[s].resp.error =
                             "Failed to delete event attendance records"]_vars

\* an event a registration was mailed for has been deleted by deleteEvent
C5_Witness ==
    \E s \in Slots :
        /\ Ended(s, "delete") /\ proc[s].resp.success
        /\ proc[s].eventId \notin DOMAIN events
        /\ \E m \in mailbox : m.qrdata[4] = proc[s].eventId

\* no row references an event that is not in the events table
NoOrphanRows ==
    \A n \in DOMAIN tables : \A r \in tables[n].rows : r.event_id \in DOMAIN events

\* event e was created and has been deleted
Deleted(e) == e \in 1..eventSeq /\ e \notin DOMAIN events

\* C6: no row of a deleted event remains, and the lookup of a registration
\* id that was mailed for an event since deleted answers 404.
C6_DeletedEventNotFound ==
    [][/\ NoOrphanRows'
       /\ (/\ out' # out /\ out'.op = "lookup"
           /\ \E m \in mailbox :
                 m.registrationId = out'.regId /\ Deleted(m.qrdata[4]))
          => out'.resp.status = 404]_vars

\* C7: when the mail of a register request is not accepted, nothing is taken
\* back from the tables and the request ends with status 200, success and a
\* warning.
C7_MailFailureWarns ==
    [][\A s \in Slots :
          (/\ proc[s].op = "register" /\ proc[s].pc = "selectId"
           /\ proc'[s] # proc[s]
           /\ mailbox' = mailbox)
          => /\ tables' = tables
             /\ proc'[s].pc = "done"
             /\ proc'[s].resp.status = 200
             /\ proc'[s].resp.success
             /\ proc'[s].resp.error = ""
             /\ proc'[s].resp.warning # ""]_vars

\* a registration whose mail was not accepted has ended and its row is stored
C7_Witness ==
    \E s \in Slots :
        /\ Ended(s, "register")
        /\ proc[s].resp.warning # ""
        /\ \A m \in mailbox : m.to # proc[s].email
        /\ RowsOf(s) # {}

\* C8: a register request with an empty name or email, or with an eventId
\* that finds no event, ends with status 400 and leaves the tables, the ids
\* and the mailbox as they were.
C8_InvalidInputIs400 ==
    [][\A s \in Slots :
          (/\ proc'[s] # proc[s]
           /\ proc'[s].op = "register" /\ proc'[s].pc = "done"
           /\ \/ proc'[s].name = "" \/ proc'[s].email = ""
              \/ (proc'[s].err = NoRows /\ ~proc'[s].resp.success))
          => /\ proc'[s].resp.status = 400
             /\ tables' = tables /\ regSeq' = regSeq /\ mailbox' = mailbox]_vars

\* C9: a register request ended by the duplicate email has status 409, and
\* one ended by the creation call finding the table made, or by another
\* failure of the insert, has status 500.
C9_StorageFailureStatus ==
    \A s \in Slots :
        Ended(s, "register")
        => /\ proc[s].err = UniqueViolation => proc[s].resp.status = 409
           /\ proc[s].err \in {DuplicateObject, UndefinedTable,
                               UndefinedColumn, ForeignKeyViolation}
              => proc[s].resp.status = 500

\* C10: a register request that ends with success, with a warning or
\* without, answers an id the tables handed out and the image URL built
\* from it.
C10_SuccessCarriesId ==
    \A s \in Slots :
        (Ended(s, "register") /\ proc[s].resp.success)
        => /\ proc[s].resp.registrationId \in 1..regSeq
           /\ proc[s].resp.qrCodeUrl # <<>>
           /\ proc[s].resp.qrCodeUrl =
                  getProductionQRCodeUrl(proc[s].resp.registrationId)

\* the rows with id registrationId in the tables derived for the events
\* there are
Matches(registrationId) == UNION {Hit(e, registrationId) : e \in DOMAIN events}

\* C11: the QR image request answers 200 exactly when the id matches a row
\* in the table of an event there is, and 404 for an id that matches no row,
\* whatever the store holds, the store with no events included.
C11_FoundOrNotFound ==
    [][(out' # out /\ out'.op = "lookup")
       => /\ out'.resp.status = 200 <=> Matches(out'.regId) # {}
          /\ Matches(out'.regId) = {} => out'.resp.status = 404]_vars

\* every row of every attendance table
AllRows == UNION {tables[n].rows : n \in DOMAIN tables}

\* the mails and the image responses that name a row carry the row's token
TokenDelivered ==
    \A row \in AllRows :
       /\ \A m \in mailbox : m.registrationId = row.id => m.qrdata = row.qrdata
       /\ \A resp \in GET(row.id) : resp.status = 200 => resp.png = row.qrdata

\* no step changes the token of a row that stays
TokenKept ==
    \A n \in DOMAIN tables : \A row \in tables[n].rows :
       \A k \in DOMAIN tables' : \A next \in tables'[k].rows :
          next.id = row.id => next.qrdata = row.qrdata

\* C12: the token stored with a row is the token of the mail that names the
\* row and the token the image endpoint renders for the row's id, and no
\* step changes the token of a stored row.
C12_TokenIdentical == []TokenDelivered /\ [][TokenKept]_vars

\* C13: isUserRegistered answers false with no error when the event's table
\* is absent, answers true exactly when the table holds a row with the
\* email, and changes nothing of the store.
C13_IsRegisteredReadOnly ==
    [][(out' # out /\ out'.op = "isRegistered")
       => LET n == tableName(events[out'.eventId].title, out'.eventId)
          IN /\ n \notin DOMAIN tables
                   => ~out'.resp.success /\ out'.resp.error = ""
             /\ out'.resp.success
                   <=> /\ n \in DOMAIN tables
                       /\ \E r \in tables[n].rows : r.email = out'.email
             /\ UNCHANGED <<triggerInstalled, events, eventSeq, tables, regSeq,
                            mailbox, proc, opsStarted>>]_vars

\* the question was asked of an event whose table is absent, and another
\* event holds a registration the question finds
C13_Witness ==
    /\ out.op = "isRegistered" /\ out.err = UndefinedTable
    /\ ~out.resp.success /\ out.resp.error = ""
    /\ \E e \in DOMAIN events, email \in Emails :
          isUserRegistered(e, email).success

C15_RoundTrip ==
    out.op = "decodeQRData"
    => /\ out.resp.success
       /\ DOMAIN out.resp.data
             = {Keys.name, Keys.email, Keys.event, Keys.eventId, Keys.timestamp}
       /\ out.resp.data[Keys.name] = out.metadata.name
       /\ out.resp.data[Keys.email] = out.metadata.email
       /\ out.resp.data[Keys.event] = out.metadata.event
       /\ out.resp.data[Keys.eventId] = out.metadata.eventId
       /\ out.resp.data[Keys.timestamp] = out.metadata.timestamp

\* a token was decoded whose name holds a surrogate pair and an escaped
\* code unit each and whose event title ends in a lone surrogate
C15_Witness ==
    /\ out.op = "decodeQRData" /\ out.resp.success
    /\ out.metadata.name = <<55296, 56320>>
    /\ out.metadata.event = <<92, 56320>>
    /\ out.metadata.email = <<34, 233>>

\* the place of a step of registerForEvent and the route in their order
Rank(pc) ==
    CASE pc = "tableCheck" -> 1
      [] pc = "createTable" -> 2
      [] pc = "insert" -> 3
      [] pc = "selectId" -> 4
      [] OTHER -> 5

\* request s is a register call under way
Registering(s) == proc[s].op = "register" /\ proc[s].pc \notin {"idle", "done"}

\* the steps of a register call: it moves forward only; it leaves the order
\* early only by failing; it is at the insert only with its table there; its
\* token does not change before it ends; rows are added by its insert step only and mail
\* is sent by its last step only, after the insert
StagesInOrder ==
    /\ \A s \in DOMAIN proc :
          Registering(s) /\ proc'[s] # proc[s]
          => /\ Rank(proc'[s].pc) > Rank(proc[s].pc)
             /\ proc'[s].pc = "done" /\ proc[s].pc # "selectId"
                   => ~proc'[s].resp.success /\ proc'[s].resp.error # ""
             /\ proc'[s].pc = "insert"
                   => tableName(proc[s].title, proc[s].eventId) \in DOMAIN tables'
             /\ proc'[s].pc # "done" => proc'[s].token = proc[s].token
    /\ regSeq' # regSeq
          => \E s \in DOMAIN proc : Registering(s) /\ proc[s].pc = "insert"
                                    /\ proc'[s].pc = "selectId"
    /\ mailbox' # mailbox
          => \E s \in DOMAIN proc : Registering(s) /\ proc[s].pc = "selectId"
                                    /\ proc'[s].pc = "done"

C18_TableNameFormula ==
    out.op = "tableName"
    => LET lower == [i \in 1..Len(out.title) |-> toLowerCase(out.title[i])]
           replaced == [i \in 1..Len(lower) |->
                           IF IsLowerAlnum(lower[i]) THEN lower[i] ELSE "_"]
           name == <<"event_",
                     IF replaced = <<>> THEN <<"e", "v", "e", "n", "t">> ELSE replaced,
                     "_", out.eventId>>
       IN /\ out.application = name
          /\ out.trigger = name
          /\ out.title = FallKickoff
                => name = <<"event_",
                            <<"f", "a", "l", "l", "_", "k", "i", "c", "k", "o", "f",
                              "f", "_">>,
                            "_", out.eventId>>

\* C19: no call of a register request is made twice (no step is gone back
\* to or repeated, so there is at most one creation call, one insert and one
\* mail), and a request one of whose storage calls failed tells its caller
\* so, with an error or a warning.
C19_NoRetryReportedOnce ==
    /\ [][\A s \in DOMAIN proc :
             Registering(s) /\ proc'[s] # proc[s]
             => /\ Rank(proc'[s].pc) > Rank(proc[s].pc)
                /\ regSeq' \in {regSeq, regSeq + 1}
                /\ Cardinality(mailbox') <= Cardinality(mailbox) + 1]_vars
    /\ [](\A s \in DOMAIN proc :
             (proc[s].op = "register" /\ proc[s].pc = "done" /\ proc[s].err # "")
             => proc[s].resp.error # "" \/ proc[s].resp.warning # "")

\* C20: deleteEvent of an event whose attendance table was never created
\* takes the absent table for an empty one: the row phase does not fail, it
\* leaves the tables alone and goes on to delete the event, and a
\* deleteEvent does not end on the absent table.
C20_AbsentTableIsEmpty ==
    /\ [][\A s \in DOMAIN proc :
             (/\ proc[s].op = "delete" /\ proc[s].pc = "delRows"
              /\ tableName(proc[s].title, proc[s].eventId) \notin DOMAIN tables
              /\ proc'[s] # proc[s])
             => proc'[s].pc = "delEvent" /\ tables' = tables]_vars
    /\ [](\A s \in DOMAIN proc :
             (proc[s].op = "delete" /\ proc[s].pc = "done"
              /\ proc[s].err = UndefinedTable)
             => proc[s].resp.success /\ proc[s].eventId \notin DOMAIN events)

\* C21: two distinct events never get the same attendance table, their
\* titles equal or not, so that the registrations of one are never stored
\* in or read from the table of the other.
C21_DistinctEventsDistinctTables ==
    out.op = "relations" => out.relations[1] # out.relations[2]

\* the strings the transport encoding can produce: characters of the
\* alphabet in groups of four, the last group padded with one or two =
Transportable(text) ==
    /\ Len(text) % 4 = 0
    /\ \A i \in 1..Len(text) :
          \/ Base64Value(text[i]) < 64 /\ text[i] \notin {45, 95}
          \/ /\ text[i] = 61 /\ i >= Len(text) - 1 /\ i > 2
             /\ \A j \in i..Len(text) : text[j] = 61

\* C22: decodeQRData answers a string that is no output of the transport
\* encoding with a MalformedToken error, one whose recovered text is no
\* structured data with a MalformedPayload error, and answers with data
\* only a token that generateEventQRCode can produce.
C22_DecodeClassifies ==
    out.op = "decodeToken" =>
        LET text == Utf8Decode(Base64Decode(out.encodedData))
        IN /\ ~Transportable(out.encodedData)
                => ~out.resp.success /\ out.resp.error = "MalformedToken"
           /\ Transportable(out.encodedData) /\ ~JSONparse(text).ok
                => ~out.resp.success /\ out.resp.error = "MalformedPayload"
           /\ out.resp.success
                => \E metadata \in Metadata :
                      encodedMetadata(metadata) = out.encodedData

\* C23: the middleware treats a user cookie it cannot parse as no session:
\* it redirects /dashboard and /admin paths to /login and lets /login and
\* /signup through.
C23_UnparseableIsNoSession ==
    [][/\ out.op = "navigation" /\ out.at = "middleware"
       /\ out.cookie = "unparseable"
       => /\ out.path \in {"/dashboard", "/admin/dashboard"}
               => out'.response = "/login"
          /\ out.path \in {"/login", "/signup"} => out'.response = "next"]_vars

\* C29: in one visit no path is asked for twice, so that the redirects of
\* the middleware and of the pages form no cycle and the visit settles.
C29_NavigationSettles ==
    out.op = "navigation" => ~Cycled

\* C24: with register and deleteEvent of one event interleaved in any way,
\* no row is left for an event that is gone: where rows still reference the
\* event when deleteEvent comes to delete it, rows inserted since its row
\* deletion among them, the delete is refused and the event stays, or the
\* rows go with the event.
C24_NoRowOutlivesEvent ==
    /\ []NoOrphanRows
    /\ [][\A s \in Slots :
             /\ proc[s].op = "delete" /\ proc[s].pc = "delEvent"
             /\ proc'[s] # proc[s]
             /\ Referencing(proc[s].eventId) # {}
             => \/ /\ ~proc'[s].resp.success
                   /\ events' = events /\ tables' = tables
                \/ /\ proc'[s].resp.success
                   /\ proc[s].eventId \notin DOMAIN events'
                   /\ \A n \in DOMAIN tables' : \A r \in tables'[n].rows :
                         r.event_id # proc[s].eventId]_vars

\* a deleteEvent call was refused at the event by the row a register call
\* inserted after the row deletion of deleteEvent
C24_Witness ==
    \E s, t \in Slots :
        /\ Ended(s, "delete") /\ proc[s].err = ForeignKeyViolation
        /\ proc[t].op = "register" /\ proc[t].eventId = proc[s].eventId
        /\ proc[t].seq > proc[s].seq
        /\ \E r \in AllRows : r.event_id = proc[s].eventId /\ r.email = proc[t].email

\* C25: the mail of a register call is sent in the step after the call's
\* insert of the row went through, and by no other step; a call that ends
\* in a failure has sent no mail.
C25_MailAfterInsert ==
    [][/\ mailbox' # mailbox
          => \E s \in Slots : /\ proc[s].op = "register" /\ proc[s].pc = "selectId"
                               /\ proc'[s].pc = "done"
       /\ \A s \in Slots :
             (proc[s].op = "register" /\ proc'[s] # proc[s])
             => /\ proc'[s].pc = "selectId"
                   => LET n == tableName(proc[s].title, proc[s].eventId)
                      IN /\ proc[s].pc = "insert"
                         /\ \E r \in tables'[n].rows \ tables[n].rows :
                               r.email = proc[s].email /\ r.qrdata = proc[s].token
                /\ proc[s].pc = "selectId"
                   => proc'[s].pc = "done" /\ proc'[s].resp.status = 200
                /\ (proc'[s].pc = "done" /\ proc'[s].resp.status # 200)
                   => mailbox' = mailbox /\ proc[s].pc # "selectId"]_vars

\* a register call ended in AlreadyRegistered for an email whose first
\* registration was mailed
C25_Witness ==
    \E s \in Slots :
        /\ Ended(s, "register") /\ proc[s].resp.status = 400
        /\ proc[s].resp.error = AlreadyRegistered
        /\ \E m \in mailbox : m.to = proc[s].email /\ m.qrdata[4] = proc[s].eventId

\* C26: no step of a register call changes or removes a row that is there,
\* and none touches the table of another event; a call that ends in
\* AlreadyRegistered or in another failure has added no row either, the one
\* step that adds a row being the insert that goes on to the mail.
C26_FailureLeavesRows ==
    [][\A s \in Slots :
          (proc'[s].op = "register" /\ proc'[s] # proc[s])
          => LET n == tableName(proc'[s].title, proc'[s].eventId)
             IN /\ \A m \in DOMAIN tables :
                      m \in DOMAIN tables' /\ tables[m].rows \subseteq tables'[m].rows
                /\ \A m \in DOMAIN tables' \ {n} :
                      tables'[m].rows = IF m \in DOMAIN tables THEN tables[m].rows ELSE {}
                /\ AllRows' # AllRows
                      => proc[s].pc = "insert" /\ proc'[s].pc = "selectId"
                /\ (proc'[s].pc = "done" /\ proc'[s].resp.status # 200)
                      => AllRows' = AllRows /\ proc[s].pc # "selectId"]_vars

\* a register call ended in AlreadyRegistered and the row of the first
\* registration is there, with the name and the token that were mailed
C26_Witness ==
    \E s \in Slots :
        /\ Ended(s, "register") /\ proc[s].resp.error = AlreadyRegistered
        /\ \E r \in AllRows, m \in mailbox :
              /\ r.event_id = proc[s].eventId /\ r.email = proc[s].email
              /\ m.registrationId = r.id /\ m.qrdata = r.qrdata

\* the attendance tables that hold a row of the id
Holding(registrationId) ==
    {n \in DOMAIN tables : \E r \in tables[n].rows : r.id = registrationId}

\* C27: for an id stored in exactly one attendance table the lookup renders
\* the token of that row in whichever order the events are listed, the
\* errors of the queries of the other events' tables skipped.
C27_LookupOrderIndependent ==
    \A registrationId \in 1..regSeq :
        Cardinality(Holding(registrationId)) = 1
        => LET row == CHOOSE r \in AllRows : r.id = registrationId
           IN GET(registrationId) = {[NoResp EXCEPT !.status = 200, !.png = row.qrdata]}

\* C28: every register call under way comes to its end; it has a response
\* when it has ended and not before, the response is a success, a success
\* with a warning or a failure, and it is not replaced; a lookup queries at
\* most one table for each event there is and answers.
C28_OneResponse ==
    /\ \A s \in Slots : Registering(s) ~> proc[s].pc = "done"
    /\ [](\A s \in Slots :
             proc[s].op = "register"
             => /\ proc[s].pc = "done" <=> proc[s].resp # NoResp
                /\ proc[s].pc = "done"
                   => \/ proc[s].resp.status = 200 /\ proc[s].resp.success
                      \/ /\ proc[s].resp.status \in {400, 500}
                         /\ ~proc[s].resp.success /\ proc[s].resp.error # "")
    /\ [][/\ \A s \in Slots :
               (proc[s].op = "register" /\ proc[s].pc = "done"
                /\ proc'[s].seq = proc[s].seq) => proc'[s] = proc[s]
          /\ (out' # out /\ out'.op = "lookup")
               => /\ out'.queries <= Cardinality(DOMAIN events)
                  /\ out'.resp.status \in {200, 404, 500}]_vars

\* a register call has ended with a warning, and a lookup has queried the
\* tables of two events
C28_Witness ==
    /\ \E s \in Slots : Ended(s, "register") /\ proc[s].resp.warning # ""
    /\ out.op = "lookup" /\ out.queries = 2

====
